---- MODULE Spec2Model ----
(***************************************************************************)
(* Indian states and districts lookup service.                             *)
(*                                                                         *)
(* The repository holds two deployments of the same query surface:         *)
(*   src/main.py       a FastAPI application over the module-level literal *)
(*                     INDIAN_DATA;                                        *)
(*   src/api/index.py  a BaseHTTPRequestHandler subclass that loads its    *)
(*                     dataset from a JSON file in its constructor.        *)
(* The variable app says which of the two the process runs.  A Python str  *)
(* is a sequence of one-character strings, a dict is the sequence of its   *)
(* items in insertion order, an optional value or a parse_qs value list is *)
(* a sequence of zero or one elements.                                     *)
(***************************************************************************)
EXTENDS Integers, Sequences, FiniteSets, TLC

VARIABLES
  app,          \* "index" (src/api/index.py) or "main" (src/main.py)
  files,        \* the file system: location -> state of the JSON file there
  loaded,       \* TRUE once the process has constructed a dataset
  indian_data,  \* the dataset the process holds (self.indian_data / INDIAN_DATA)
  request,      \* the last request received
  response      \* the response sent to it

vars == <<app, files, loaded, indian_data, request, response>>

----------------------------------------------------------------------------
(* Python str operations, computed character by character.                 *)

UpperChars ==
  <<"A","B","C","D","E","F","G","H","I","J","K","L","M",
    "N","O","P","Q","R","S","T","U","V","W","X","Y","Z">>

LowerChars ==
  <<"a","b","c","d","e","f","g","h","i","j","k","l","m",
    "n","o","p","q","r","s","t","u","v","w","x","y","z">>

CharUpper(c) ==
  IF \E i \in 1..Len(LowerChars) : LowerChars[i] = c
  THEN UpperChars[CHOOSE i \in 1..Len(LowerChars) : LowerChars[i] = c]
  ELSE c

CharLower(c) ==
  IF \E i \in 1..Len(UpperChars) : UpperChars[i] = c
  THEN LowerChars[CHOOSE i \in 1..Len(UpperChars) : UpperChars[i] = c]
  ELSE c

\* str.upper()
str_upper(s) == [i \in 1..Len(s) |-> CharUpper(s[i])]

\* str.lower()
str_lower(s) == [i \in 1..Len(s) |-> CharLower(s[i])]

\* needle in hay
str_contains(needle, hay) ==
  \E i \in 0..(Len(hay) - Len(needle)) : SubSeq(hay, i + 1, i + Len(needle)) = needle

\* s.startswith(p)
str_startswith(s, p) == Len(s) >= Len(p) /\ SubSeq(s, 1, Len(p)) = p

\* s.rstrip(c) for a one-character c
RECURSIVE str_rstrip(_, _)
str_rstrip(s, c) ==
  IF s # <<>> /\ s[Len(s)] = c THEN str_rstrip(SubSeq(s, 1, Len(s) - 1), c) ELSE s

\* s.split(c) for a one-character c: the pieces between the separators
RECURSIVE str_split_from(_, _, _, _)
str_split_from(s, c, i, piece) ==
  IF i > Len(s) THEN <<piece>>
  ELSE IF s[i] = c THEN <<piece>> \o str_split_from(s, c, i + 1, <<>>)
  ELSE str_split_from(s, c, i + 1, Append(piece, s[i]))

str_split(s, c) == str_split_from(s, c, 1, <<>>)

----------------------------------------------------------------------------
(* Datasets.  A dataset is what json.load or the literal gives: hasStates  *)
(* says whether the top-level object has the key "states", states is the   *)
(* dict code -> {name, districts} as the sequence of its items.            *)

\* main.py: the module-level dataset literal, in source order.
INDIAN_DATA ==
  [hasStates |-> TRUE, states |-> <<
    [code |-> <<"U","P">>, name |-> <<"U","t","t","a","r"," ","P","r","a","d","e","s","h">>,
     districts |-> <<
       <<"A","g","r","a">>,
       <<"A","l","i","g","a","r","h">>,
       <<"A","l","l","a","h","a","b","a","d">>,
       <<"A","m","b","e","d","k","a","r"," ","N","a","g","a","r">>,
       <<"A","m","e","t","h","i">>,
       <<"A","m","r","o","h","a">>,
       <<"A","u","r","a","i","y","a">>,
       <<"A","z","a","m","g","a","r","h">>,
       <<"B","a","g","h","p","a","t">>,
       <<"B","a","h","r","a","i","c","h">>,
       <<"B","a","l","l","i","a">>,
       <<"B","a","l","r","a","m","p","u","r">>,
       <<"B","a","n","d","a">>,
       <<"B","a","r","a","b","a","n","k","i">>,
       <<"B","a","r","e","i","l","l","y">>,
       <<"B","a","s","t","i">>,
       <<"B","h","a","d","o","h","i">>,
       <<"B","i","j","n","o","r">>,
       <<"B","u","d","a","u","n">>,
       <<"B","u","l","a","n","d","s","h","a","h","r">>,
       <<"C","h","a","n","d","a","u","l","i">>,
       <<"C","h","i","t","r","a","k","o","o","t">>,
       <<"D","e","o","r","i","a">>,
       <<"E","t","a","h">>,
       <<"E","t","a","w","a","h">>,
       <<"F","a","i","z","a","b","a","d">>,
       <<"F","a","r","r","u","k","h","a","b","a","d">>,
       <<"F","a","t","e","h","p","u","r">>,
       <<"F","i","r","o","z","a","b","a","d">>,
       <<"G","a","u","t","a","m"," ","B","u","d","d","h","a"," ","N","a","g","a","r">>,
       <<"G","h","a","z","i","a","b","a","d">>,
       <<"G","h","a","z","i","p","u","r">>,
       <<"G","o","n","d","a">>,
       <<"G","o","r","a","k","h","p","u","r">>,
       <<"H","a","m","i","r","p","u","r">>,
       <<"H","a","p","u","r">>,
       <<"H","a","r","d","o","i">>,
       <<"H","a","t","h","r","a","s">>,
       <<"J","a","l","a","u","n">>,
       <<"J","a","u","n","p","u","r">>,
       <<"J","h","a","n","s","a">>,
       <<"K","a","n","n","a","u","j">>,
       <<"K","a","n","p","u","r"," ","D","e","h","a","t">>,
       <<"K","a","n","p","u","r"," ","N","a","g","a","r">>,
       <<"K","a","s","g","a","n","j">>,
       <<"K","a","u","s","h","a","m","b","i">>,
       <<"K","h","e","r","i">>,
       <<"K","u","s","h","i","n","a","g","a","r">>,
       <<"L","a","l","i","t","p","u","r">>,
       <<"L","u","c","k","n","o","w">> >>],
    [code |-> <<"M","H">>, name |-> <<"M","a","h","a","r","a","s","h","t","r","a">>,
     districts |-> <<
       <<"A","h","m","e","d","n","a","g","a","r">>,
       <<"A","k","o","l","a">>,
       <<"A","m","r","a","v","a","t","i">>,
       <<"A","u","r","a","n","g","a","b","a","d">>,
       <<"B","e","e","d">>,
       <<"B","h","a","n","d","a","r","a">>,
       <<"B","u","l","d","h","a","n","a">>,
       <<"C","h","a","n","d","r","a","p","u","r">>,
       <<"D","h","u","l","e">>,
       <<"G","a","d","c","h","i","r","o","l","i">>,
       <<"G","o","n","d","i","a">>,
       <<"H","i","n","g","o","l","i">>,
       <<"J","a","l","g","a","o","n">>,
       <<"J","a","l","n","a">>,
       <<"K","o","l","h","a","p","u","r">>,
       <<"L","a","t","u","r">>,
       <<"M","u","m","b","a","i"," ","C","i","t","y">>,
       <<"M","u","m","b","a","i"," ","S","u","b","u","r","b","a","n">>,
       <<"N","a","g","p","u","r">>,
       <<"N","a","n","d","e","d">>,
       <<"N","a","n","d","u","r","b","a","r">>,
       <<"N","a","s","h","i","k">>,
       <<"O","s","m","a","n","a","b","a","d">>,
       <<"P","a","l","g","h","a","r">>,
       <<"P","a","r","b","h","a","n","i">>,
       <<"P","u","n","e">>,
       <<"R","a","i","g","a","d">>,
       <<"R","a","t","n","a","g","i","r","i">>,
       <<"S","a","n","g","l","i">>,
       <<"S","a","t","a","r","a">>,
       <<"S","i","n","d","h","u","d","u","r","g">>,
       <<"S","o","l","a","p","u","r">>,
       <<"T","h","a","n","e">>,
       <<"W","a","r","d","h","a">>,
       <<"W","a","s","h","i","m">>,
       <<"Y","a","v","a","t","m","a","l">> >>],
    [code |-> <<"K","A">>, name |-> <<"K","a","r","n","a","t","a","k","a">>,
     districts |-> <<
       <<"B","a","g","a","l","k","o","t">>,
       <<"B","a","l","l","a","r","i">>,
       <<"B","e","l","a","g","a","v","i">>,
       <<"B","e","n","g","a","l","u","r","u"," ","R","u","r","a","l">>,
       <<"B","e","n","g","a","l","u","r","u"," ","U","r","b","a","n">>,
       <<"B","i","d","a","r">>,
       <<"C","h","a","m","a","r","a","j","a","n","a","g","a","r">>,
       <<"C","h","i","k","b","a","l","l","a","p","u","r">>,
       <<"C","h","i","k","k","a","m","a","g","a","l","u","r","u">>,
       <<"C","h","i","t","r","a","d","u","r","g","a">>,
       <<"D","a","k","s","h","i","n","a"," ","K","a","n","n","a","d","a">>,
       <<"D","a","v","a","n","g","e","r","e">>,
       <<"D","h","a","r","w","a","d">>,
       <<"G","a","d","a","g">>,
       <<"H","a","s","s","a","n">>,
       <<"H","a","v","e","r","i">>,
       <<"K","a","l","a","b","u","r","a","g","i">>,
       <<"K","o","d","a","g","u">>,
       <<"K","o","l","a","r">>,
       <<"K","o","p","p","a","l">>,
       <<"M","a","n","d","y","a">>,
       <<"M","y","s","u","r","u">>,
       <<"R","a","i","c","h","u","r">>,
       <<"R","a","m","a","n","a","g","a","r","a">>,
       <<"S","h","i","v","a","m","o","g","g","a">>,
       <<"T","u","m","a","k","u","r","u">>,
       <<"U","d","u","p","i">>,
       <<"U","t","t","a","r","a"," ","K","a","n","n","a","d","a">>,
       <<"V","i","j","a","y","a","p","u","r","a">>,
       <<"Y","a","d","g","i","r">> >>],
    [code |-> <<"T","N">>, name |-> <<"T","a","m","i","l"," ","N","a","d","u">>,
     districts |-> <<
       <<"A","r","i","y","a","l","u","r">>,
       <<"C","h","e","n","g","a","l","p","a","t","t","u">>,
       <<"C","h","e","n","n","a","i">>,
       <<"C","o","i","m","b","a","t","o","r","e">>,
       <<"C","u","d","d","a","l","o","r","e">>,
       <<"D","h","a","r","m","a","p","u","r","i">>,
       <<"D","i","n","d","i","g","u","l">>,
       <<"E","r","o","d","e">>,
       <<"K","a","l","l","a","k","u","r","i","c","h","i">>,
       <<"K","a","n","c","h","i","p","u","r","a","m">>,
       <<"K","a","n","y","a","k","u","m","a","r","i">>,
       <<"K","a","r","u","r">>,
       <<"K","r","i","s","h","n","a","g","i","r","i">>,
       <<"M","a","d","u","r","a","i">>,
       <<"M","a","y","i","l","a","d","u","t","h","u","r","a","i">>,
       <<"N","a","g","a","p","a","t","t","i","n","a","m">>,
       <<"N","a","m","a","k","k","a","l">>,
       <<"N","i","l","g","i","r","i","s">>,
       <<"P","e","r","a","m","b","a","l","u","r">>,
       <<"P","u","d","u","k","k","o","t","t","a","i">>,
       <<"R","a","m","a","n","a","t","h","a","p","u","r","a","m">>,
       <<"R","a","n","i","p","e","t">>,
       <<"S","a","l","e","m">>,
       <<"S","i","v","a","g","a","n","g","a">>,
       <<"T","e","n","k","a","s","i">>,
       <<"T","h","a","n","j","a","v","u","r">>,
       <<"T","h","e","n","i">>,
       <<"T","h","o","o","t","h","u","k","u","d","i">>,
       <<"T","i","r","u","c","h","i","r","a","p","p","a","l","l","i">>,
       <<"T","i","r","u","n","e","l","v","e","l","i">>,
       <<"T","i","r","u","p","a","t","h","u","r">>,
       <<"T","i","r","u","p","p","u","r">>,
       <<"T","i","r","u","v","a","l","l","u","r">>,
       <<"T","i","r","u","v","a","n","n","a","m","a","l","a","i">>,
       <<"T","i","r","u","v","a","r","u","r">>,
       <<"V","e","l","l","o","r","e">>,
       <<"V","i","l","u","p","p","u","r","a","m">>,
       <<"V","i","r","u","d","h","u","n","a","g","a","r">> >>],
    [code |-> <<"W","B">>, name |-> <<"W","e","s","t"," ","B","e","n","g","a","l">>,
     districts |-> <<
       <<"A","l","i","p","u","r","d","u","a","r">>,
       <<"B","a","n","k","u","r","a">>,
       <<"B","i","r","b","h","u","m">>,
       <<"C","o","o","c","h"," ","B","e","h","a","r">>,
       <<"D","a","k","s","h","i","n"," ","D","i","n","a","j","p","u","r">>,
       <<"D","a","r","j","e","e","l","i","n","g">>,
       <<"H","o","o","g","h","l","y">>,
       <<"H","o","w","r","a","h">>,
       <<"J","a","l","p","a","i","g","u","r","i">>,
       <<"J","h","a","r","g","r","a","m">>,
       <<"K","a","l","i","m","p","o","n","g">>,
       <<"K","o","l","k","a","t","a">>,
       <<"M","a","l","d","a">>,
       <<"M","u","r","s","h","i","d","a","b","a","d">>,
       <<"N","a","d","i","a">>,
       <<"N","o","r","t","h"," ","2","4"," ","P","a","r","g","a","n","a","s">>,
       <<"P","a","s","c","h","i","m"," ","B","a","r","d","h","a","m","a","n">>,
       <<"P","a","s","c","h","i","m"," ","M","e","d","i","n","i","p","u","r">>,
       <<"P","u","r","b","a"," ","B","a","r","d","h","a","m","a","n">>,
       <<"P","u","r","b","a"," ","M","e","d","i","n","i","p","u","r">>,
       <<"P","u","r","u","l","i","a">>,
       <<"S","o","u","t","h"," ","2","4"," ","P","a","r","g","a","n","a","s">>,
       <<"U","t","t","a","r"," ","D","i","n","a","j","p","u","r">> >>] >>]


\* index.py load_data: the dataset returned when no candidate file exists.
MinimalFallback ==
  [hasStates |-> TRUE, states |-> <<
    [code |-> <<"U","P">>, name |-> <<"U","t","t","a","r"," ","P","r","a","d","e","s","h">>,
     districts |-> <<
       <<"A","g","r","a">>,
       <<"L","u","c","k","n","o","w">>,
       <<"K","a","n","p","u","r">>,
       <<"G","h","a","z","i","a","b","a","d">>,
       <<"V","a","r","a","n","a","s","i">> >>],
    [code |-> <<"M","H">>, name |-> <<"M","a","h","a","r","a","s","h","t","r","a">>,
     districts |-> <<
       <<"M","u","m","b","a","i"," ","C","i","t","y">>,
       <<"P","u","n","e">>,
       <<"N","a","g","p","u","r">>,
       <<"N","a","s","h","i","k">>,
       <<"A","u","r","a","n","g","a","b","a","d">> >>] >>]

\* index.py load_data: the dataset returned when anything raised.
ErrorFallback ==
  [hasStates |-> TRUE, states |-> <<
    [code |-> <<"U","P">>, name |-> <<"U","t","t","a","r"," ","P","r","a","d","e","s","h">>,
     districts |-> <<
       <<"A","g","r","a">>,
       <<"L","u","c","k","n","o","w">>,
       <<"K","a","n","p","u","r">> >>] >>]

----------------------------------------------------------------------------
(* The files load_data looks for.                                          *)

\* The three places the four candidate paths name: "x.json" and "./x.json"
\* are the same file of the working directory.
Locations == {"cwd", "parent", "var_task"}

\* index.py load_data: possible_paths, in the order tried.
possible_paths == <<"cwd", "parent", "cwd", "var_task">>

\* JSON documents a data file may hold.
JsonWithoutStates == [hasStates |-> FALSE, states |-> <<>>]

JsonEmptyStates == [hasStates |-> TRUE, states |-> <<>>]

\* A document with a lower-case key and a repeated district.
JsonMixedKeys ==
  [hasStates |-> TRUE, states |-> <<
    [code |-> <<"u","p">>, name |-> <<"U","t","t","a","r"," ","P","r","a","d","e","s","h">>,
     districts |-> << <<"A","g","r","a">>, <<"A","g","r","a">> >>],
    [code |-> <<"D","L">>, name |-> <<"D","e","l","h","i">>,
     districts |-> << <<"N","e","w"," ","D","e","l","h","i">> >>] >>]

JsonDocuments == {JsonWithoutStates, JsonEmptyStates, JsonMixedKeys}

\* A file is absent, present but not readable as JSON, or present with a document.
AbsentFile == [exists |-> FALSE, parses |-> FALSE, json |-> JsonWithoutStates]

CorruptFile == [exists |-> TRUE, parses |-> FALSE, json |-> JsonWithoutStates]

JsonFile(doc) == [exists |-> TRUE, parses |-> TRUE, json |-> doc]

FileStates == {AbsentFile, CorruptFile} \cup {JsonFile(doc) : doc \in JsonDocuments}

\* index.py load_data.  The loop returns json.load of the first path that
\* exists; open or json.load raising there leaves the try block for the except
\* branch, and the loop ending without a hit returns the literal after it.
load_data(fs) ==
  IF \E i \in 1..Len(possible_paths) : fs[possible_paths[i]].exists
  THEN LET i == CHOOSE j \in 1..Len(possible_paths) :
                  /\ fs[possible_paths[j]].exists
                  /\ \A k \in 1..(j - 1) : ~fs[possible_paths[k]].exists
           file == fs[possible_paths[i]]
       IN IF file.parses THEN file.json ELSE ErrorFallback
  ELSE MinimalFallback

----------------------------------------------------------------------------
(* Results of a Python call: a returned value or a raised exception.       *)

PyNone == [none |-> TRUE]

Return(v) == [raised |-> FALSE, exc |-> "", text |-> "", arg |-> <<>>, status_code |-> 0, value |-> v]

\* raise Exception(f"{text} {arg}") / raise HTTPException(status_code, detail)
Raise(exc, text, arg, status_code) ==
  [raised |-> TRUE, exc |-> exc, text |-> text, arg |-> arg,
   status_code |-> status_code, value |-> PyNone]

\* code in states
has_key(states, code) == \E i \in 1..Len(states) : states[i].code = code

\* states[code]
dict_get(states, code) == states[CHOOSE i \in 1..Len(states) : states[i].code = code]

\* data["states"] on a document without that key
KeyErrorStates == Raise("KeyError", "'states'", <<>>, 0)

\* sum(len(state_info["districts"]) for state_info in states.values())
RECURSIVE sum_districts(_, _)
sum_districts(states, i) ==
  IF i > Len(states) THEN 0 ELSE Len(states[i].districts) + sum_districts(states, i + 1)

\* round(n / d, 2), in hundredths.  No n / d with d < 16 lies halfway between
\* two hundredths, so the nearest hundredth is the rounded value.
round2(n, d) == (200 * n + d) \div (2 * d)

----------------------------------------------------------------------------
(* src/api/index.py: the resolver methods of handler.                      *)

index_get_root(data) ==
  Return([message |-> "Indian States and Districts API", version |-> "1.0.0",
          status |-> "active",
          total_states |-> IF data.hasStates THEN Len(data.states) ELSE 0])

index_get_health(data) ==
  Return([status |-> "healthy",
          data_loaded |-> (IF data.hasStates THEN Len(data.states) ELSE 0) > 0,
          states_count |-> IF data.hasStates THEN Len(data.states) ELSE 0])

index_get_all_states(data) ==
  IF ~data.hasStates THEN KeyErrorStates
  ELSE Return([states |-> [i \in 1..Len(data.states) |->
                 [name |-> data.states[i].name, code |-> data.states[i].code]]])

index_get_state(state_code, data) ==
  IF ~data.hasStates THEN KeyErrorStates
  ELSE IF ~has_key(data.states, state_code)
  THEN Raise("Exception", "State not found", state_code, 0)
  ELSE LET state_info == dict_get(data.states, state_code)
       IN Return([code |-> state_code,
                  name |-> state_info.name,
                  districts_count |-> Len(state_info.districts),
                  districts |-> state_info.districts])

index_get_state_districts(state_code, data) ==
  IF ~data.hasStates THEN KeyErrorStates
  ELSE IF ~has_key(data.states, state_code)
  THEN Raise("Exception", "State not found", state_code, 0)
  ELSE LET state_info == dict_get(data.states, state_code)
       IN Return([state |-> state_info.name,
                  state_code |-> state_code,
                  districts |-> state_info.districts,
                  count |-> Len(state_info.districts)])

\* The loop of search_states, from item i on.
RECURSIVE search_states_loop(_, _, _, _)
search_states_loop(states, i, query_lower, results) ==
  IF i > Len(states) THEN results
  ELSE search_states_loop(states, i + 1, query_lower,
         IF str_contains(query_lower, str_lower(states[i].name))
         THEN Append(results, [code |-> states[i].code, name |-> states[i].name])
         ELSE results)

\* index_search_states rejecting only the empty query.
index_search_states_min_one(query, data) ==
  IF Len(query) < 1
  THEN Raise("Exception", "Query must be at least 2 characters long", <<>>, 0)
  ELSE IF ~data.hasStates THEN KeyErrorStates
  ELSE LET results == search_states_loop(data.states, 1, str_lower(query), <<>>)
       IN Return([query |-> query, results |-> results, count |-> Len(results)])

index_search_states(query, data) ==
  IF Len(query) < 2
  THEN Raise("Exception", "Query must be at least 2 characters long", <<>>, 0)
  ELSE IF ~data.hasStates THEN KeyErrorStates
  ELSE LET results == search_states_loop(data.states, 1, str_lower(query), <<>>)
       IN Return([query |-> query, results |-> results, count |-> Len(results)])

\* search_district_loop with the district compared as written, not lower-cased.
search_district_loop_case_sensitive(state, query_lower, results) ==
  LET hits == SelectSeq(state.districts,
                        LAMBDA district : str_contains(query_lower, district))
  IN results \o [n \in 1..Len(hits) |->
                   [district |-> hits[n], state |-> state.name, state_code |-> state.code]]

\* The inner loop of search_districts over one state's districts: an entry is
\* appended to results for each district that contains the query, in order.
search_district_loop(state, query_lower, results) ==
  LET hits == SelectSeq(state.districts,
                        LAMBDA district : str_contains(query_lower, str_lower(district)))
  IN results \o [n \in 1..Len(hits) |->
                   [district |-> hits[n], state |-> state.name, state_code |-> state.code]]

\* The outer loop of search_districts over states_to_search, from i on.
RECURSIVE search_districts_loop(_, _, _, _)
search_districts_loop(states_to_search, i, query_lower, results) ==
  IF i > Len(states_to_search) THEN results
  ELSE search_districts_loop(states_to_search, i + 1, query_lower,
         search_district_loop(states_to_search[i], query_lower, results))

\* state_code is None (<<>>) or a string (<<s>>); "if state_code:" is false
\* for None and for the empty string.
index_search_districts(query, state_code, data) ==
  IF Len(query) < 2
  THEN Raise("Exception", "Query must be at least 2 characters long", <<>>, 0)
  ELSE IF ~data.hasStates THEN KeyErrorStates
  ELSE IF state_code # <<>> /\ state_code[1] # <<>>
  THEN LET upper == str_upper(state_code[1])
       IN IF ~has_key(data.states, upper)
          THEN Raise("Exception", "State not found", upper, 0)
          ELSE LET results == search_districts_loop(
                                <<dict_get(data.states, upper)>>,
                                1, str_lower(query), <<>>)
               IN Return([query |-> query, state_filter |-> <<upper>>,
                          results |-> results, count |-> Len(results)])
  ELSE LET results == search_districts_loop(data.states, 1, str_lower(query), <<>>)
       IN Return([query |-> query, state_filter |-> state_code,
                  results |-> results, count |-> Len(results)])

\* index_get_stats with the average computed as main.py computes it, unguarded.
index_get_stats_unguarded(data) ==
  IF ~data.hasStates THEN KeyErrorStates
  ELSE LET total_states == Len(data.states)
           total_districts == sum_districts(data.states, 1)
       IN IF total_states = 0 THEN Raise("ZeroDivisionError", "division by zero", <<>>, 0)
          ELSE Return([total_states |-> total_states,
                       total_districts |-> total_districts,
                       average_districts_per_state |-> round2(total_districts, total_states),
                       states_breakdown |-> [i \in 1..Len(data.states) |->
                         [code |-> data.states[i].code,
                          name |-> data.states[i].name,
                          districts_count |-> Len(data.states[i].districts)]]])

index_get_stats(data) ==
  IF ~data.hasStates THEN KeyErrorStates
  ELSE LET total_states == Len(data.states)
           total_districts == sum_districts(data.states, 1)
       IN Return([total_states |-> total_states,
                  total_districts |-> total_districts,
                  average_districts_per_state |->
                    IF total_states > 0 THEN round2(total_districts, total_states) ELSE 0,
                  states_breakdown |-> [i \in 1..Len(data.states) |->
                    [code |-> data.states[i].code,
                     name |-> data.states[i].name,
                     districts_count |-> Len(data.states[i].districts)]]])

----------------------------------------------------------------------------
(* src/api/index.py: routing and the HTTP methods of handler.              *)

str_slash == <<"/">>

str_health == <<"/","h","e","a","l","t","h">>

str_states == <<"/","s","t","a","t","e","s">>

str_states_slash == <<"/","s","t","a","t","e","s","/">>

str_districts == <<"d","i","s","t","r","i","c","t","s">>

str_search_states == <<"/","s","e","a","r","c","h","/","s","t","a","t","e","s">>

str_search_districts == <<"/","s","e","a","r","c","h","/","d","i","s","t","r","i","c","t","s">>

str_stats == <<"/","s","t","a","t","s">>

\* urllib.parse.parse_qs: a parameter with a blank value is dropped, so its
\* key is absent (an empty value list here).
parse_qs(query) ==
  [q |-> SelectSeq(query.q, LAMBDA v : v # <<>>),
   state_code |-> SelectSeq(query.state_code, LAMBDA v : v # <<>>)]

index_route_request(raw_path, query_params, data) ==
  LET path == str_rstrip(raw_path, "/")
  IN IF path = <<>> \/ path = str_slash THEN index_get_root(data)
     ELSE IF path = str_health THEN index_get_health(data)
     ELSE IF path = str_states THEN index_get_all_states(data)
     ELSE IF str_startswith(path, str_states_slash)
     THEN LET path_parts == str_split(path, "/")
          IN IF Len(path_parts) = 3
             THEN index_get_state(str_upper(path_parts[3]), data)
             ELSE IF Len(path_parts) = 4 /\ path_parts[4] = str_districts
             THEN index_get_state_districts(str_upper(path_parts[3]), data)
             ELSE Return(PyNone)
     ELSE IF path = str_search_states
     THEN LET query == IF query_params.q = <<>> THEN <<>> ELSE query_params.q[1]
          IN index_search_states(query, data)
     ELSE IF path = str_search_districts
     THEN LET query == IF query_params.q = <<>> THEN <<>> ELSE query_params.q[1]
              state_code == IF query_params.state_code = <<>> THEN <<>>
                            ELSE <<query_params.state_code[1]>>
          IN index_search_districts(query, state_code, data)
     ELSE IF path = str_stats THEN index_get_stats(data)
     ELSE Raise("Exception", "Endpoint not found", path, 0)

\* The headers do_GET sends before it routes.
index_get_headers ==
  { <<"Content-type", "application/json">>,
    <<"Access-Control-Allow-Origin", "*">>,
    <<"Access-Control-Allow-Methods", "GET, POST, OPTIONS">>,
    <<"Access-Control-Allow-Headers", "Content-Type">> }

\* do_GET: the status line and the headers are sent first, then the body is
\* the result of route_request or, when it raised, the error object.
index_do_GET(path, query, data) ==
  LET r == index_route_request(path, parse_qs(query), data)
  IN [status |-> 200,
      headers |-> index_get_headers,
      body |-> IF r.raised
               THEN [error |-> [text |-> r.text, arg |-> r.arg],
                     status |-> "error", path |-> path]
               ELSE r.value]

index_do_OPTIONS ==
  [status |-> 200,
   headers |-> { <<"Access-Control-Allow-Origin", "*">>,
                 <<"Access-Control-Allow-Methods", "GET, POST, OPTIONS">>,
                 <<"Access-Control-Allow-Headers", "Content-Type">> },
   body |-> PyNone]

----------------------------------------------------------------------------
(* src/main.py: the path operations of the FastAPI application.            *)

main_root(data) ==
  Return([message |-> "Indian States and Districts API", version |-> "1.0.0",
          status |-> "active", total_states |-> Len(data.states)])

main_health_check(data) ==
  Return([status |-> "healthy", data_loaded |-> Len(data.states) > 0,
          timestamp |-> "2025-01-01T00:00:00Z"])

main_get_all_states(data) ==
  Return([states |-> [i \in 1..Len(data.states) |->
            [name |-> data.states[i].name, code |-> data.states[i].code]]])

\* main_get_state looking the path parameter up as sent, not upper-cased.
main_get_state_as_sent(path_code, data) ==
  LET state_code == path_code
  IN IF ~has_key(data.states, state_code)
     THEN Raise("HTTPException", "State not found", state_code, 404)
     ELSE LET state_info == dict_get(data.states, state_code)
          IN Return([code |-> state_code,
                     name |-> state_info.name,
                     districts_count |-> Len(state_info.districts),
                     districts |-> state_info.districts])

main_get_state(path_code, data) ==
  LET state_code == str_upper(path_code)
  IN IF ~has_key(data.states, state_code)
     THEN Raise("HTTPException", "State not found", state_code, 404)
     ELSE LET state_info == dict_get(data.states, state_code)
          IN Return([code |-> state_code,
                     name |-> state_info.name,
                     districts_count |-> Len(state_info.districts),
                     districts |-> state_info.districts])

main_get_state_districts(path_code, data) ==
  LET state_code == str_upper(path_code)
  IN IF ~has_key(data.states, state_code)
     THEN Raise("HTTPException", "State not found", state_code, 404)
     ELSE LET state_info == dict_get(data.states, state_code)
          IN Return([state |-> state_info.name, districts |-> state_info.districts])

main_search_states(q, data) ==
  IF Len(q) < 2
  THEN Raise("HTTPException", "Query must be at least 2 characters long", <<>>, 400)
  ELSE LET results == search_states_loop(data.states, 1, str_lower(q), <<>>)
       IN Return([query |-> q, results |-> results, count |-> Len(results)])

main_search_districts(q, state_code, data) ==
  IF Len(q) < 2
  THEN Raise("HTTPException", "Query must be at least 2 characters long", <<>>, 400)
  ELSE IF state_code # <<>> /\ state_code[1] # <<>>
  THEN LET upper == str_upper(state_code[1])
       IN IF ~has_key(data.states, upper)
          THEN Raise("HTTPException", "State not found", upper, 404)
          ELSE LET results == search_districts_loop(<<dict_get(data.states, upper)>>,
                                                    1, str_lower(q), <<>>)
               IN Return([query |-> q, state_filter |-> <<upper>>,
                          results |-> results, count |-> Len(results)])
  ELSE LET results == search_districts_loop(data.states, 1, str_lower(q), <<>>)
       IN Return([query |-> q, state_filter |-> state_code,
                  results |-> results, count |-> Len(results)])

\* The average is computed without a guard: total_states = 0 raises.
main_get_stats(data) ==
  LET total_states == Len(data.states)
      total_districts == sum_districts(data.states, 1)
  IN IF total_states = 0 THEN Raise("ZeroDivisionError", "division by zero", <<>>, 500)
     ELSE Return([total_states |-> total_states,
                  total_districts |-> total_districts,
                  average_districts_per_state |-> round2(total_districts, total_states),
                  states_breakdown |-> [i \in 1..Len(data.states) |->
                    [code |-> data.states[i].code,
                     name |-> data.states[i].name,
                     districts_count |-> Len(data.states[i].districts)]]])

\* The route a path matches: the decorators' path templates, a path parameter
\* being one non-empty segment.
main_match(path) ==
  LET parts == str_split(path, "/")
  IN IF path = str_slash THEN "root"
     ELSE IF path = str_health THEN "health_check"
     ELSE IF path = str_states THEN "get_all_states"
     ELSE IF path = str_search_states THEN "search_states"
     ELSE IF path = str_search_districts THEN "search_districts"
     ELSE IF path = str_stats THEN "get_stats"
     ELSE IF /\ str_startswith(path, str_states_slash)
             /\ Len(parts) = 3 /\ parts[3] # <<>>
     THEN "get_state"
     ELSE IF /\ str_startswith(path, str_states_slash)
             /\ Len(parts) = 4 /\ parts[3] # <<>> /\ parts[4] = str_districts
     THEN "get_state_districts"
     ELSE "none"

\* The call the application makes for a GET on a matched route.  q: str has
\* no default, so a request without q is rejected before the function runs;
\* state_code: Optional[str] = None takes the value sent, blank included.
main_call(route, path, query, data) ==
  LET parts == str_split(path, "/")
      state_code == IF query.state_code = <<>> THEN <<>>
                    ELSE <<query.state_code[Len(query.state_code)]>>
  IN CASE route = "root" -> main_root(data)
       [] route = "health_check" -> main_health_check(data)
       [] route = "get_all_states" -> main_get_all_states(data)
       [] route = "get_state" -> main_get_state(parts[3], data)
       [] route = "get_state_districts" -> main_get_state_districts(parts[3], data)
       [] route = "search_states" ->
            IF query.q = <<>> THEN Raise("RequestValidationError", "Field required", <<"q">>, 422)
            ELSE main_search_states(query.q[Len(query.q)], data)
       [] route = "search_districts" ->
            IF query.q = <<>> THEN Raise("RequestValidationError", "Field required", <<"q">>, 422)
            ELSE main_search_districts(query.q[Len(query.q)], state_code, data)
       [] route = "get_stats" -> main_get_stats(data)

\* app = FastAPI(...) is built with no middleware: a response carries the
\* content type and nothing else.
main_headers == { <<"content-type", "application/json">> }

main_error(status, text) ==
  [status |-> status, headers |-> main_headers,
   body |-> [detail |-> [text |-> text, arg |-> <<>>]]]

\* A GET request to the application.
main_app_GET(path, query, data) ==
  LET route == main_match(path)
  IN IF route = "none"
     THEN IF path # str_slash /\ path # <<>> /\ path[Len(path)] = "/"
             /\ main_match(SubSeq(path, 1, Len(path) - 1)) # "none"
          THEN [status |-> 307, headers |-> {}, body |-> PyNone]
          ELSE main_error(404, "Not Found")
     ELSE LET r == main_call(route, path, query, data)
          IN IF r.raised
             THEN [status |-> r.status_code, headers |-> main_headers,
                   body |-> [detail |-> [text |-> r.text, arg |-> r.arg]]]
             ELSE [status |-> 200, headers |-> main_headers, body |-> r.value]

\* An OPTIONS request: every route is declared with @app.get only.
main_app_OPTIONS(path) ==
  IF main_match(path) = "none" THEN main_error(404, "Not Found")
  ELSE main_error(405, "Method Not Allowed")

----------------------------------------------------------------------------
(* Requests.                                                               *)

PlainPaths ==
  { <<"/">>,
    <<"/","h","e","a","l","t","h">>,
    <<"/","s","t","a","t","e","s">>,
    <<"/","s","t","a","t","e","s","/">>,
    <<"/","s","t","a","t","e","s","/","U","P">>,
    <<"/","s","t","a","t","e","s","/","u","p">>,
    <<"/","s","t","a","t","e","s","/","Z","Z">>,
    <<"/","s","t","a","t","e","s","/","U","P","/","d","i","s","t","r","i","c","t","s">>,
    <<"/","s","t","a","t","e","s","/","m","h","/","d","i","s","t","r","i","c","t","s">>,
    <<"/","s","t","a","t","e","s","/","z","z","/","d","i","s","t","r","i","c","t","s">>,
    <<"/","s","t","a","t","e","s","/","U","P","/","o","t","h","e","r">>,
    <<"/","s","t","a","t","e","s","/","U","P","/","d","i","s","t","r","i","c","t","s","/","e","x","t","r","a">>,
    <<"/","s","t","a","t","s">>,
    <<"/","u","n","k","n","o","w","n">> }

QueryTexts == { <<>>, <<"a">>, <<"A","G">>, <<"a","r">>, <<"z","z">> }

StateCodeTexts == { <<>>, <<"u","p">>, <<"z","z">> }

\* A query string: each parameter absent (<<>>) or sent once with a text.
NoQuery == [q |-> <<>>, state_code |-> <<>>]

QueryStrings ==
  [q : {<<>>} \cup {<<t>> : t \in QueryTexts},
   state_code : {<<>>} \cup {<<t>> : t \in StateCodeTexts}]

GetRequests ==
  {[method |-> "GET", path |-> p, query |-> NoQuery] : p \in PlainPaths}
  \cup {[method |-> "GET", path |-> str_search_states, query |-> qs] :
          qs \in {x \in QueryStrings : x.state_code = <<>>}}
  \cup {[method |-> "GET", path |-> str_search_districts, query |-> qs] :
          qs \in QueryStrings}

OptionsRequests ==
  {[method |-> "OPTIONS", path |-> p, query |-> NoQuery] :
     p \in {str_slash, str_states, <<"/","u","n","k","n","o","w","n">>}}

NoRequest == [method |-> "", path |-> <<>>, query |-> NoQuery]

NoResponse == [status |-> 0, headers |-> {}, body |-> PyNone]

----------------------------------------------------------------------------
(* The process.                                                            *)

\* main.py builds INDIAN_DATA when the module is imported; index.py holds no
\* dataset until a handler object is constructed.
Init ==
  /\ app \in {"index", "main"}
  /\ files \in IF app = "index" THEN [Locations -> FileStates]
               ELSE {[loc \in Locations |-> AbsentFile]}
  /\ loaded = (app = "main")
  /\ indian_data = IF app = "main" THEN INDIAN_DATA ELSE JsonWithoutStates
  /\ request = NoRequest
  /\ response = NoResponse

\* index.py: a handler object is constructed for the request; __init__ runs
\* load_data and then the base class constructor, which handles the request
\* by calling do_GET.
IndexGET(req) ==
  /\ app = "index"
  /\ req.method = "GET"
  /\ indian_data' = load_data(files)
  /\ loaded' = TRUE
  /\ request' = req
  /\ response' = index_do_GET(req.path, req.query, load_data(files))
  /\ UNCHANGED <<app, files>>

IndexOPTIONS(req) ==
  /\ app = "index"
  /\ req.method = "OPTIONS"
  /\ indian_data' = load_data(files)
  /\ loaded' = TRUE
  /\ request' = req
  /\ response' = index_do_OPTIONS
  /\ UNCHANGED <<app, files>>

MainGET(req) ==
  /\ app = "main"
  /\ req.method = "GET"
  /\ request' = req
  /\ response' = main_app_GET(req.path, req.query, indian_data)
  /\ UNCHANGED <<app, files, loaded, indian_data>>

MainOPTIONS(req) ==
  /\ app = "main"
  /\ req.method = "OPTIONS"
  /\ request' = req
  /\ response' = main_app_OPTIONS(req.path)
  /\ UNCHANGED <<app, files, loaded, indian_data>>

\* The environment writes, replaces or removes a data file.  main.py opens no
\* file, so the files are followed under index.py only.
ChangeFile(loc, st) ==
  /\ app = "index"
  /\ files[loc] # st
  /\ files' = [files EXCEPT ![loc] = st]
  /\ UNCHANGED <<app, loaded, indian_data, request, response>>

Next ==
  \/ \E req \in GetRequests : IndexGET(req)
  \/ \E req \in OptionsRequests : IndexOPTIONS(req)
  \/ \E req \in GetRequests : MainGET(req)
  \/ \E req \in OptionsRequests : MainOPTIONS(req)
  \/ \E loc \in Locations, st \in FileStates : ChangeFile(loc, st)

Spec == Init /\ [][Next]_vars

----------------------------------------------------------------------------
(* What the properties below read of a request and its response.           *)

Served == request.method # ""

ServedGET == request.method = "GET"

\* The codes of the dataset the process holds.
Keys == {indian_data.states[i].code : i \in 1..Len(indian_data.states)}

StateOf(code) ==
  indian_data.states[CHOOSE i \in 1..Len(indian_data.states) :
                       indian_data.states[i].code = code]

ReqParts == str_split(request.path, "/")

\* GET /states/{code}
IsStateRequest ==
  /\ ServedGET /\ str_startswith(request.path, str_states_slash)
  /\ Len(ReqParts) = 3 /\ ReqParts[3] # <<>>

\* GET /states/{code}/districts
IsDistrictsRequest ==
  /\ ServedGET /\ str_startswith(request.path, str_states_slash)
  /\ Len(ReqParts) = 4 /\ ReqParts[3] # <<>> /\ ReqParts[4] = str_districts

IsSearchStates == ServedGET /\ request.path = str_search_states

IsSearchDistricts == ServedGET /\ request.path = str_search_districts

\* The search text sent: absent, or the text of q.
QSent == request.query.q # <<>>

QText == request.query.q[1]

FilterSent == request.query.state_code # <<>>

FilterText == request.query.state_code[1]

\* A response whose body is an error object, and the message it carries.
IsFailure == "error" \in DOMAIN response.body \/ "detail" \in DOMAIN response.body

FailureText ==
  IF "error" \in DOMAIN response.body THEN response.body.error.text
  ELSE IF "detail" \in DOMAIN response.body THEN response.body.detail.text
  ELSE ""

IsNotFound == IsFailure /\ FailureText = "State not found"

IsInvalidQuery == IsFailure /\ FailureText = "Query must be at least 2 characters long"

HasResults == "results" \in DOMAIN response.body

\* q occurs in name at some offset, letter case ignored.
MatchesIgnoringCase(q, name) ==
  \E off \in 0..(Len(name) - Len(q)) :
    \A k \in 1..Len(q) : CharLower(q[k]) = CharLower(name[off + k])

\* The district occurrences of states that match q, as <<state index, district
\* index>>, and the entries for them in state order, then district order.
MatchingOccurrences(states, q) ==
  {<<i, j>> \in UNION {{i} \X (1..Len(states[i].districts)) : i \in 1..Len(states)} :
     MatchesIgnoringCase(q, states[i].districts[j])}

Before(a, b) == a[1] < b[1] \/ (a[1] = b[1] /\ a[2] <= b[2])

ExpectedDistrictResults(states, q) ==
  LET occ == MatchingOccurrences(states, q)
      nth(n) == CHOOSE p \in occ : Cardinality({o \in occ : Before(o, p)}) = n
  IN [n \in 1..Cardinality(occ) |->
        [district |-> states[nth(n)[1]].districts[nth(n)[2]],
         state |-> states[nth(n)[1]].name,
         state_code |-> states[nth(n)[1]].code]]

----------------------------------------------------------------------------
(* C1.  The HTTP status follows the resolver outcome: a GET that names an   *)
(* unknown state code (in the path, or as a non-empty state_code filter of  *)
(* a valid search) is answered 404, a search whose q is shorter than two    *)
(* characters is answered 400, and neither is answered 200.                 *)

C1_ShortQuery == (IsSearchStates \/ IsSearchDistricts) /\ QSent /\ Len(QText) < 2

C1_UnknownCode ==
  \/ (IsStateRequest \/ IsDistrictsRequest) /\ str_upper(ReqParts[3]) \notin Keys
  \/ /\ IsSearchDistricts /\ QSent /\ Len(QText) >= 2
     /\ FilterSent /\ FilterText # <<>> /\ str_upper(FilterText) \notin Keys

C1_StatusFollowsOutcome ==
  /\ C1_ShortQuery => response.status = 400
  /\ C1_UnknownCode => response.status = 404

----------------------------------------------------------------------------
(* C2.  As claimed: a search (states or districts, any state_code) whose q  *)
(* is shorter than two characters, the empty text and a missing q parameter *)
(* included, fails with the invalid-query error and returns no result list. *)

C2_TooShort == (IsSearchStates \/ IsSearchDistricts) /\ (~QSent \/ Len(QText) < 2)

C2_ShortQueryIsInvalidQueryAsClaimed == C2_TooShort => IsInvalidQuery /\ ~HasResults

(* C2 as amended: a q sent with fewer than two characters fails with the    *)
(* invalid-query error under both applications; a request without q fails   *)
(* with the invalid-query error under index.py, and under main.py it is     *)
(* rejected as a request without a required parameter (status 422) before   *)
(* the search runs.  No result list is returned in any of these cases.      *)
C2_ShortQueryFails ==
  C2_TooShort =>
    /\ ~HasResults
    /\ IF app = "main" /\ ~QSent
       THEN IsFailure /\ FailureText = "Field required" /\ response.status = 422
       ELSE IsInvalidQuery

\* A search without q was refused as too short.
C2_Witness == C2_TooShort /\ ~QSent /\ IsInvalidQuery /\ ~HasResults

----------------------------------------------------------------------------
(* C3.  Lookups ignore the letter case of the code.  For every key of the   *)
(* dataset, the state lookup and the districts lookup give the same result  *)
(* for the key and for the key in lower case; a lookup whose upper-cased    *)
(* code is a key answers with that key's record under the upper-case code;  *)
(* and a state_code filter is answered under its upper-case form.           *)

PathOfState(code) == str_states_slash \o code

PathOfDistricts(code) == str_states_slash \o code \o str_slash \o str_districts

\* The resolver's result for a GET of path, on the dataset held.
Resolve(path) ==
  IF app = "index" THEN index_route_request(path, NoQuery, indian_data)
  ELSE main_call(main_match(path), path, NoQuery, indian_data)

C3_CaseInsensitiveLookup ==
  (loaded /\ indian_data.hasStates) =>
    /\ \A k \in Keys :
         /\ Resolve(PathOfState(k)) = Resolve(PathOfState(str_lower(k)))
         /\ Resolve(PathOfDistricts(k)) = Resolve(PathOfDistricts(str_lower(k)))
    /\ (IsStateRequest /\ str_upper(ReqParts[3]) \in Keys) =>
         /\ ~IsFailure
         /\ response.body.code = str_upper(ReqParts[3])
         /\ response.body.name = StateOf(str_upper(ReqParts[3])).name
         /\ response.body.districts = StateOf(str_upper(ReqParts[3])).districts
         /\ response.body.districts_count = Len(StateOf(str_upper(ReqParts[3])).districts)
    /\ (IsDistrictsRequest /\ str_upper(ReqParts[3]) \in Keys) =>
         /\ ~IsFailure
         /\ response.body.state = StateOf(str_upper(ReqParts[3])).name
         /\ response.body.districts = StateOf(str_upper(ReqParts[3])).districts
    /\ (IsSearchDistricts /\ HasResults /\ FilterSent /\ FilterText # <<>>) =>
         /\ response.body.state_filter = <<str_upper(FilterText)>>
         /\ \A n \in 1..Len(response.body.results) :
              response.body.results[n].state_code = str_upper(FilterText)

\* A lookup by a lower-case code was answered with the upper-case key's record.
C3_Witness ==
  /\ IsStateRequest /\ ReqParts[3] # str_upper(ReqParts[3])
  /\ loaded /\ indian_data.hasStates /\ str_upper(ReqParts[3]) \in Keys
  /\ ~IsFailure /\ response.body.code = str_upper(ReqParts[3])

----------------------------------------------------------------------------
(* C4.  A district search with a q of two or more characters answers with   *)
(* exactly one entry per district occurrence whose name contains q, letter  *)
(* case ignored, in state order then district order.  As claimed: whenever  *)
(* a state_code is sent, only the state with the upper-cased code is        *)
(* scanned, and the search fails with not-found when that code is no key.   *)

C4_Applies ==
  /\ IsSearchDistricts /\ QSent /\ Len(QText) >= 2
  /\ loaded /\ indian_data.hasStates

C4_FullScan ==
  /\ ~IsFailure /\ HasResults
  /\ response.body.results = ExpectedDistrictResults(indian_data.states, QText)

C4_OneState(code) ==
  IF code \in Keys
  THEN /\ ~IsFailure /\ HasResults
       /\ response.body.results = ExpectedDistrictResults(<<StateOf(code)>>, QText)
  ELSE IsNotFound /\ ~HasResults

C4_SearchDistrictsAsClaimed ==
  C4_Applies =>
    IF FilterSent THEN C4_OneState(str_upper(FilterText)) ELSE C4_FullScan

(* C4 as amended: the filter applies when a non-empty state_code is sent; a *)
(* state_code sent empty is treated as no filter and every state is         *)
(* scanned.                                                                 *)
C4_SearchDistricts ==
  C4_Applies =>
    IF FilterSent /\ FilterText # <<>>
    THEN C4_OneState(str_upper(FilterText)) ELSE C4_FullScan

\* A filtered search by a query in another letter case found a district.
C4_Witness ==
  /\ C4_Applies /\ FilterSent /\ FilterText # <<>>
  /\ QText # str_lower(QText)
  /\ HasResults /\ response.body.results # <<>>

----------------------------------------------------------------------------
(* C5.  Stats succeeds on every dataset: total_districts is the number of   *)
(* district occurrences over all state records, total_states the number of *)
(* records, and on the empty dataset both are 0 and the average is 0.       *)

IsStats == ServedGET /\ request.path = str_stats

DistrictOccurrences ==
  UNION {{i} \X (1..Len(indian_data.states[i].districts)) :
           i \in 1..Len(indian_data.states)}

C5_Stats ==
  (IsStats /\ loaded /\ indian_data.hasStates) =>
    /\ ~IsFailure
    /\ "total_districts" \in DOMAIN response.body
    /\ response.body.total_states = Len(indian_data.states)
    /\ response.body.total_districts = Cardinality(DistrictOccurrences)
    /\ indian_data.states = <<>> =>
         /\ response.body.total_states = 0
         /\ response.body.total_districts = 0
         /\ response.body.average_districts_per_state = 0

\* Stats was answered on the empty dataset.
C5_Witness ==
  /\ IsStats /\ loaded /\ indian_data.hasStates /\ indian_data.states = <<>>
  /\ ~IsFailure /\ response.body.average_districts_per_state = 0

----------------------------------------------------------------------------
(* C6.  The dataset is constructed once and never reloaded or changed: once *)
(* the process holds a dataset, no step (a request of any kind, a change of *)
(* a data file) changes it.                                                 *)

C6_DatasetNeverReloaded == [][loaded => indian_data' = indian_data]_vars

----------------------------------------------------------------------------
(* C7.  A GET whose path is none of the defined routes is answered with a   *)
(* not-found error payload, paths under /states/ with extra or different    *)
(* segments included.                                                       *)

C7_DefinedRoute(raw_path) ==
  LET path == str_rstrip(raw_path, "/")
      parts == str_split(path, "/")
  IN \/ path \in {<<>>, str_health, str_states, str_search_states,
                  str_search_districts, str_stats}
     \/ /\ str_startswith(path, str_states_slash)
        /\ \/ Len(parts) = 3
           \/ Len(parts) = 4 /\ parts[4] = str_districts

C7_NotFoundPayload ==
  /\ IsFailure
  /\ FailureText \in {"Endpoint not found", "Not Found"}

C7_UnknownPathIsNotFound ==
  (ServedGET /\ ~C7_DefinedRoute(request.path)) => C7_NotFoundPayload

----------------------------------------------------------------------------
(* C8.  Load never leaves the service without data: whatever the candidate  *)
(* files hold, the dataset the process holds after loading has the states   *)
(* table and at least one state in it.                                      *)

C8_LoadedDatasetNotEmpty ==
  loaded => indian_data.hasStates /\ Len(indian_data.states) >= 1

----------------------------------------------------------------------------
(* C9.  Every response sent (a result, an error, an unknown path, a         *)
(* preflight) carries the header Access-Control-Allow-Origin: *.            *)

C9_EveryResponseAllowsAnyOrigin ==
  Served => <<"Access-Control-Allow-Origin", "*">> \in response.headers

----------------------------------------------------------------------------
(* C10.  Every key of the loaded dataset is upper-case, from whichever      *)
(* source it was loaded, so every code the state list returns is found by   *)
(* the state lookup and the districts lookup.                               *)

C10_KeysUpperCase ==
  (loaded /\ indian_data.hasStates) =>
    \A k \in Keys :
      /\ k = str_upper(k)
      /\ ~Resolve(PathOfState(k)).raised
      /\ ~Resolve(PathOfDistricts(k)).raised

----------------------------------------------------------------------------
(* C11.  Load tries the candidate paths in their order and returns the      *)
(* document of the first candidate that exists and parses; a candidate that *)
(* exists but does not parse does not keep a later valid one from being     *)
(* used, and a fallback is returned only when no candidate exists and       *)
(* parses.                                                                  *)

C11_Valid(fs, j) == fs[possible_paths[j]].exists /\ fs[possible_paths[j]].parses

C11_FirstValidOrFallback(fs, data) ==
  IF \E j \in 1..Len(possible_paths) : C11_Valid(fs, j)
  THEN \E j \in 1..Len(possible_paths) :
         /\ C11_Valid(fs, j)
         /\ \A k \in 1..(j - 1) : ~C11_Valid(fs, k)
         /\ data = fs[possible_paths[j]].json
  ELSE data \in {MinimalFallback, ErrorFallback}

\* Under index.py every step that leaves the files alone is a request, whose
\* handler loads the dataset from them.
C11_FirstValidCandidateWins ==
  [][(app = "index" /\ files' = files) =>
       C11_FirstValidOrFallback(files, indian_data')]_vars

====
